---- MODULE Spec2Model ----
(***************************************************************************)
(* Model of two components of the scripts repository:                      *)
(*   - bin/lib/import_python_misc.py: add_python_misc_to_sys_path, the     *)
(*     upward directory walk that prepends a library directory to sys.path *)
(*   - cli_programs/tzar/tzar/archive/p7zip_item.py: P7ZipItem             *)
(* Paths are strings, modelled as sequences of one-character strings, and  *)
(* os.path.dirname / os.path.join are modelled character by character as   *)
(* posixpath computes them.                                                *)
(***************************************************************************)
EXTENDS Integers, Sequences, FiniteSets, TLC

VARIABLES
    file,            \* __file__ of the bootstrap module
    fs,              \* the filesystem: the set of marker-file paths that exist
    sys_path,        \* sys.path
    pc,              \* position in add_python_misc_to_sys_path
    base_dir,        \* local base_dir
    last_base_dir,   \* local last_base_dir
    calls,           \* number of calls started so far
    resolved,        \* base_lib_dir the current call returned on (None if none)
    examined,        \* history: the base_dir of each while-iteration of this call
    path_at_call,    \* history: sys.path when the current call started
    first_path,      \* history: sys.path when the first call returned
    inserts,         \* history: number of sys.path.insert executed
    parsed_name,     \* tzar: the parsed_name given to the factory
    item,            \* tzar: what item_for_path_if_matching returned
    batch,           \* tzar: the calls received by the supplied batch, in order
    batch_before,    \* tzar history: the batch when the last build_* started
    last_op,         \* tzar history: the last operation invoked
    builds,          \* tzar history: number of build_* operations invoked
    aborted          \* tzar: message console.abort was called with ("None" if not)

walk_vars == <<file, fs, sys_path, pc, base_dir, last_base_dir, calls,
               resolved, examined, path_at_call, first_path, inserts>>
zip_vars == <<parsed_name, item, batch, batch_before, last_op, builds, aborted>>
vars == <<file, fs, sys_path, pc, base_dir, last_base_dir, calls,
          resolved, examined, path_at_call, first_path, inserts,
          parsed_name, item, batch, batch_before, last_op, builds, aborted>>

\* ------------------------------------------------------------------ bounds
MaxLen == 6          \* longest __file__ string
MaxMarkers == 2      \* most marker files present in the filesystem
MaxCalls == 2        \* most calls of add_python_misc_to_sys_path in a process
MaxBuilds == 2       \* most build_* operations applied to one batch

\* ------------------------------------------------------------------ paths
None == <<"None">>
Chars == {"/", "a"}
UNRELATED == <<"/", "o">>

Max(S) == CHOOSE i \in S : \A j \in S : j <= i
Elems(s) == {s[i] : i \in 1..Len(s)}

\* str.rfind('/') + 1
LastSlash(p) ==
    LET S == {i \in 1..Len(p) : p[i] = "/"} IN IF S = {} THEN 0 ELSE Max(S)

\* head == '/' * len(head)
AllSlashes(h) == \A i \in 1..Len(h) : h[i] = "/"

\* str.rstrip('/')
RStrip(h) ==
    LET K == {i \in 1..Len(h) : h[i] # "/"} IN
    IF K = {} THEN <<>> ELSE SubSeq(h, 1, Max(K))

\* os.path.dirname (posixpath)
dirname(p) ==
    LET head == SubSeq(p, 1, LastSlash(p)) IN
    IF head # <<>> /\ ~AllSlashes(head) THEN RStrip(head) ELSE head

\* os.path.join (posixpath) of two parts
join(a, b) ==
    IF b # <<>> /\ b[1] = "/" THEN b
    ELSE IF a = <<>> \/ a[Len(a)] = "/" THEN a \o b
    ELSE a \o <<"/">> \o b

LIB == <<"l", "i", "b">>
EXT_PYTHON_MISC ==
    <<"e", "x", "t", "/", "p", "y", "t", "h", "o", "n", "_", "m", "i", "s", "c">>
PYTHON_MISC == <<"p", "y", "t", "h", "o", "n", "_", "m", "i", "s", "c">>
INIT_PY == <<"_", "_", "i", "n", "i", "t", "_", "_", ".", "p", "y">>

BASE_SUB_DIRS_reversed == <<EXT_PYTHON_MISC, LIB>>
BASE_SUB_DIRS == <<LIB, join(<<"e", "x", "t">>, PYTHON_MISC)>>

\* os.path.join(base_lib_dir, 'python_misc', '__init__.py')
MarkerPath(base_lib_dir) == join(join(base_lib_dir, PYTHON_MISC), INIT_PY)

\* os.path.exists on the modelled filesystem
exists_some_marker(p) == fs # {}
exists(p) == p \in fs

\* base_dir = os.path.dirname(os.path.dirname(__file__))
StartDir_three_up(f) == dirname(dirname(dirname(f)))
StartDir(f) == dirname(dirname(f))

\* the guard of line 20
WalkEnds_no_guard(new_dir, last) == FALSE
WalkEnds(new_dir, last) == new_dir = <<>> \/ new_dir = last

\* sys.path.insert(0, base_lib_dir) behind its membership test
GuardedInsert_unguarded(path, d) == <<d>> \o path
GuardedInsert_append(path, d) == IF d \in Elems(path) THEN path ELSE Append(path, d)
GuardedInsert(path, d) == IF d \in Elems(path) THEN path ELSE <<d>> \o path

\* ------------------------------------------------------- initial states
Files == {f \in UNION {[1..n -> Chars] : n \in 1..MaxLen} : f[Len(f)] # "/"}

RECURSIVE DirStrings(_)
\* every directory string above a path: dirname applied once, twice, ...
DirStrings(p) ==
    LET d == dirname(p) IN IF d = p THEN {d} ELSE {d} \cup DirStrings(d)

LibDirs(f) == {join(d, BASE_SUB_DIRS[j]) : d \in DirStrings(f), j \in 1..Len(BASE_SUB_DIRS)}

Layouts(f) == {m \in SUBSET {MarkerPath(l) : l \in LibDirs(f)} : Cardinality(m) <= MaxMarkers}

\* sys.path holds no entry twice when the walk is first called
InitialPaths(f) ==
    {<<>>, <<UNRELATED>>}
    \cup {<<l>> : l \in LibDirs(f)}
    \cup {<<UNRELATED, l>> : l \in LibDirs(f)}
    \cup {<<l, UNRELATED>> : l \in LibDirs(f)}

\* what a Python call that returns nothing yields
NoItem == [cls |-> "NoneType"]

ZipIdle ==
    /\ parsed_name = [extension |-> "None"]
    /\ item = NoItem
    /\ batch = <<>>
    /\ batch_before = <<>>
    /\ last_op = "None"
    /\ builds = 0
    /\ aborted = "None"

Init ==
    /\ file \in Files
    /\ fs \in Layouts(file)
    /\ sys_path \in InitialPaths(file)
    /\ pc = "init"
    /\ base_dir = None
    /\ last_base_dir = None
    /\ calls = 0
    /\ resolved = None
    /\ examined = <<>>
    /\ path_at_call = sys_path
    /\ first_path = None
    /\ inserts = 0
    /\ ZipIdle

\* ---------------------------------------------- add_python_misc_to_sys_path
\* lines 7-10: entry
Call ==
    /\ pc \in {"init", "returned"}
    /\ calls < MaxCalls
    /\ calls' = calls + 1
    /\ last_base_dir' = None
    /\ base_dir' = StartDir(file)
    /\ resolved' = None
    /\ examined' = <<>>
    /\ path_at_call' = sys_path
    /\ pc' = "while"
    /\ UNCHANGED <<file, fs, sys_path, first_path, inserts>>
    /\ UNCHANGED zip_vars

Return(path) ==
    /\ pc' = "returned"
    /\ first_path' = IF calls = 1 THEN path ELSE first_path

\* lines 12-14: the for loop; the index of the first candidate of BASE_SUB_DIRS
\* under which the marker file exists, 0 when the loop ends without one
FirstMatch(dir) ==
    LET hits == {j \in 1..Len(BASE_SUB_DIRS) :
                    exists(MarkerPath(join(dir, BASE_SUB_DIRS[j])))}
    IN  IF hits = {} THEN 0 ELSE CHOOSE j \in hits : \A k \in hits : j <= k

\* the history of examined levels; a walk over a path of at most MaxLen
\* characters never fills it
LogCap == MaxLen + 2
Log(seq, d) == IF Len(seq) < LogCap THEN Append(seq, d) ELSE seq

\* lines 11-22: one iteration of the while loop
Iterate ==
    /\ pc = "while"
    /\ examined' = Log(examined, base_dir)
    /\ LET j == FirstMatch(base_dir) IN
       IF j # 0
       THEN LET base_lib_dir == join(base_dir, BASE_SUB_DIRS[j]) IN
            /\ sys_path' = GuardedInsert(sys_path, base_lib_dir)
            /\ inserts' = IF sys_path' # sys_path THEN inserts + 1 ELSE inserts
            /\ resolved' = base_lib_dir
            /\ Return(sys_path')
            /\ UNCHANGED <<base_dir, last_base_dir>>
       ELSE /\ base_dir' = dirname(base_dir)
            /\ IF WalkEnds(base_dir', last_base_dir)
               THEN /\ Return(sys_path)
                    /\ UNCHANGED last_base_dir
               ELSE /\ last_base_dir' = base_dir'
                    /\ pc' = "while"
                    /\ UNCHANGED first_path
            /\ UNCHANGED <<sys_path, inserts, resolved>>
    /\ UNCHANGED <<file, fs, calls, path_at_call>>
    /\ UNCHANGED zip_vars

Next == Call \/ Iterate

Spec == Init /\ [][Next]_vars

\* The interpreter runs a started call on: each iteration of the while loop is
\* eventually executed. The walk never reads sys.path to decide where it goes,
\* so the behaviours are taken from the initial states with a short sys.path.
LiveInit == Init /\ sys_path \in {<<>>, <<UNRELATED>>}
LiveSpec == LiveInit /\ [][Next]_vars /\ WF_vars(Iterate)

\* ------------------------------------------------------------- P7ZipItem
Extensions == {"7z", "zip", "7Z", "", "gz"}
ItemPaths == {"docs", "src"}
Configs == {"cfg1", "cfg2"}
Kwargs == {"none", "dryrun"}
ArchiveNames == {"docs_1", "docs_2"}
PriorCommand == [op |-> "add_command", args |-> << <<"echo">> >>]

RestoreMessage == "Restore is not yet implemented for p7zip compression."
CompareMessage == "Compare is not yet implemented for p7zip compression."

\* line 28: the extension test of the factory
Matches_ignoring_case(parsed) == parsed.extension \in {"7z", "7Z"}
Matches(parsed) == parsed.extension = "7z"

\* lines 31-33: P7ZipItem(path, config_data, **kwargs); BaseItem.__init__ gives
\* the instance its attributes, among them the archive name
P7ZipItem(path, config_data, kwargs, archive) ==
    [cls |-> "P7ZipItem", path |-> path, config_data |-> config_data,
     kwargs |-> kwargs, archive |-> archive]

\* console.abort(message): the process ends with the message
console_abort(message) == message
Running == aborted = "None"

\* lines 37-40: the calls build_create_batch makes on the batch, in order. An
\* argument is a tuple of string parts: a plain string is a 1-tuple, and
\* (self.archive, '.7z') is the 2-tuple the code passes.
CreateCalls_deletion_first(self) ==
    << [op |-> "add_source_deletion", args |-> <<>>],
       [op |-> "add_command", args |-> << <<"7za">>, <<"a">> >>],
       [op |-> "add_exclude_args", args |-> << <<"-xr!">> >>],
       [op |-> "add_args", args |-> << <<self.archive, ".7z">>, <<self.path>> >>] >>
CreateCalls(self) ==
    << [op |-> "add_command", args |-> << <<"7za">>, <<"a">> >>],
       [op |-> "add_exclude_args", args |-> << <<"-xr!">> >>],
       [op |-> "add_args", args |-> << <<self.archive, ".7z">>, <<self.path>> >>],
       [op |-> "add_source_deletion", args |-> <<>>] >>

\* lines 25-29
item_for_path_if_matching ==
    /\ Running
    /\ last_op = "None"
    /\ \E path \in ItemPaths, ext \in Extensions, config_data \in Configs,
          kwargs \in Kwargs, archive \in ArchiveNames :
          /\ parsed_name' = [extension |-> ext]
          /\ item' = IF Matches(parsed_name')
                     THEN P7ZipItem(path, config_data, kwargs, archive)
                     ELSE NoItem
    /\ last_op' = "factory"
    /\ UNCHANGED <<batch, batch_before, builds, aborted>>
    /\ UNCHANGED walk_vars

CanBuild ==
    /\ Running
    /\ item.cls = "P7ZipItem"
    /\ builds < MaxBuilds

\* lines 35-40
build_create_batch ==
    /\ CanBuild
    /\ batch_before' = batch
    /\ batch' = batch \o CreateCalls(item)
    /\ last_op' = "create"
    /\ builds' = builds + 1
    /\ UNCHANGED <<parsed_name, item, aborted>>
    /\ UNCHANGED walk_vars

\* lines 42-44
build_restore_batch_silent ==
    /\ CanBuild
    /\ batch_before' = batch
    /\ last_op' = "restore"
    /\ builds' = builds + 1
    /\ UNCHANGED <<parsed_name, item, batch, aborted>>
    /\ UNCHANGED walk_vars
build_restore_batch ==
    /\ CanBuild
    /\ batch_before' = batch
    /\ aborted' = console_abort(RestoreMessage)
    /\ last_op' = "restore"
    /\ builds' = builds + 1
    /\ UNCHANGED <<parsed_name, item, batch>>
    /\ UNCHANGED walk_vars

\* lines 46-48
build_compare_batch ==
    /\ CanBuild
    /\ batch_before' = batch
    /\ aborted' = console_abort(CompareMessage)
    /\ last_op' = "compare"
    /\ builds' = builds + 1
    /\ UNCHANGED <<parsed_name, item, batch>>
    /\ UNCHANGED walk_vars

ZipInit ==
    /\ file = <<"a">>
    /\ fs = {}
    /\ sys_path = <<>>
    /\ pc = "init"
    /\ base_dir = None
    /\ last_base_dir = None
    /\ calls = 0
    /\ resolved = None
    /\ examined = <<>>
    /\ path_at_call = <<>>
    /\ first_path = None
    /\ inserts = 0
    /\ parsed_name = [extension |-> "None"]
    /\ item = NoItem
    /\ batch \in {<<>>, <<PriorCommand>>}
    /\ batch_before = batch
    /\ last_op = "None"
    /\ builds = 0
    /\ aborted = "None"

ZipNext ==
    \/ item_for_path_if_matching
    \/ build_create_batch
    \/ build_restore_batch
    \/ build_compare_batch

ZipSpec == ZipInit /\ [][ZipNext]_vars

\* ============================================================ properties
RECURSIVE Ancestors(_)
\* the levels above a start directory: the directory, its parent, ... up to the
\* last one whose parent is neither empty nor itself
Ancestors(d) ==
    LET p == dirname(d) IN
    IF p = d \/ p = <<>> THEN <<d>> ELSE <<d>> \o Ancestors(p)

Levels == Ancestors(dirname(dirname(file)))
Priority == <<LIB, EXT_PYTHON_MISC>>
\* the (level, candidate) pairs under which the marker file exists
MarkerPairs ==
    {q \in (1..Len(Levels)) \X (1..Len(Priority)) :
        join(join(join(Levels[q[1]], Priority[q[2]]), PYTHON_MISC), INIT_PY) \in fs}
Before(q, r) == q[1] < r[1] \/ (q[1] = r[1] /\ q[2] <= r[2])
Nearest == CHOOSE q \in MarkerPairs : \A r \in MarkerPairs : Before(q, r)
Count(s, x) == Cardinality({i \in 1..Len(s) : s[i] = x})

\* C1: when a marker exists under some (level, candidate) pair of the walk, the
\* call resolves to the pair at the nearest level and, within it, the first
\* candidate in the order lib, ext/python_misc; that directory is on sys.path.
C1_NearestFirst ==
    (pc = "returned" /\ MarkerPairs # {}) =>
        /\ resolved = join(Levels[Nearest[1]], Priority[Nearest[2]])
        /\ resolved \in Elems(sys_path)
C1_Witness ==
    /\ pc = "returned"
    /\ \E q, r \in MarkerPairs : q[1] < r[1] /\ q[2] > r[2]
    /\ resolved = join(Levels[Nearest[1]], Priority[Nearest[2]])

\* C2: when no marker exists under any candidate at any level of the walk, the
\* call returns with sys.path exactly as it was and nothing inserted.
C2_NoMatchNoChange ==
    (pc = "returned" /\ MarkerPairs = {}) =>
        /\ sys_path = path_at_call
        /\ resolved = None
        /\ inserts = 0
C2_Witness ==
    /\ pc = "returned"
    /\ MarkerPairs = {}
    /\ fs # {}
    /\ Len(examined) >= 2
    /\ examined[1] # examined[2]

C4_OnlyPrepend ==
    /\ \/ sys_path = path_at_call
       \/ resolved # None /\ sys_path = <<resolved>> \o path_at_call
    /\ (pc = "returned" /\ (resolved = None \/ resolved \in Elems(path_at_call)))
          => sys_path = path_at_call
    /\ (pc = "returned" /\ resolved # None /\ resolved \notin Elems(path_at_call))
          => sys_path = <<resolved>> \o path_at_call
C4_Witness ==
    /\ pc = "returned"
    /\ path_at_call # <<>>
    /\ resolved # None
    /\ sys_path = <<resolved>> \o path_at_call

\* posixpath.basename, and a path without doubled slashes
basename(p) == SubSeq(p, LastSlash(p) + 1, Len(p))
Normal(p) == \A i \in 1..(Len(p) - 1) : ~(p[i] = "/" /\ p[i + 1] = "/")

\* C5 as stated: the first base_dir is two levels above the directory that
\* contains the bootstrap file.
C5_TwoAboveContainingDir ==
    examined # <<>> => examined[1] = dirname(dirname(dirname(file)))
\* C5 amended: the first base_dir is the parent of the directory that contains
\* the bootstrap file, one level above it: that directory is the first
\* base_dir joined with the directory's own name.
C5_ParentOfContainingDir ==
    examined # <<>> =>
        LET d == dirname(file) IN
        /\ examined[1] = dirname(d)
        /\ Normal(d) => join(examined[1], basename(d)) = d
C5_Witness ==
    /\ examined # <<>>
    /\ Normal(dirname(file))
    /\ examined[1] # dirname(file)
    /\ dirname(examined[1]) # examined[1]
    /\ dirname(examined[1]) # <<>>

\* C6: every call returns: by resolving a directory or by the root guard.
C6_Terminates == (pc = "while") ~> (pc = "returned")
C6_Witness ==
    /\ pc = "returned"
    /\ resolved = None
    /\ Len(examined) >= 2
    /\ examined[1] # examined[2]
    /\ dirname(base_dir) = base_dir

\* C9: no directory level is examined more than once in one call.
C9_EachLevelOnce ==
    \A i, j \in 1..Len(examined) : i # j => examined[i] # examined[j]

\* C7: the factory returns a P7ZipItem exactly when the extension is '7z'.
C7_MatchesOnly7z ==
    last_op # "None" => (item.cls = "P7ZipItem" <=> parsed_name.extension = "7z")
C7_Witness ==
    /\ last_op = "factory"
    /\ parsed_name.extension = "7z"
    /\ item.cls = "P7ZipItem"

\* C8: restore and compare end aborted with their 'not yet implemented' message
\* and leave the batch as it was.
C8_RestoreCompareAbort ==
    /\ last_op = "restore" => aborted = RestoreMessage /\ batch = batch_before
    /\ last_op = "compare" => aborted = CompareMessage /\ batch = batch_before
    /\ aborted # "None" => last_op \in {"restore", "compare"}
C8_Witness ==
    /\ last_op = "restore"
    /\ aborted = RestoreMessage
    /\ batch # <<>>

\* C10: build_create_batch appends add_command('7za', 'a'), add_exclude_args
\* ('-xr!'), add_args((archive, '.7z'), path) and add_source_deletion, in this
\* order, and does not abort.
C10_CreateAppendsFour ==
    last_op = "create" =>
        /\ aborted = "None"
        /\ Len(batch) = Len(batch_before) + 4
        /\ SubSeq(batch, 1, Len(batch_before)) = batch_before
        /\ LET n == Len(batch_before) IN
           /\ batch[n + 1] = [op |-> "add_command", args |-> << <<"7za">>, <<"a">> >>]
           /\ batch[n + 2] = [op |-> "add_exclude_args", args |-> << <<"-xr!">> >>]
           /\ batch[n + 3] = [op |-> "add_args",
                              args |-> << <<item.archive, ".7z">>, <<item.path>> >>]
           /\ batch[n + 4] = [op |-> "add_source_deletion", args |-> <<>>]
C10_Witness ==
    /\ last_op = "create"
    /\ builds = 2
    /\ Len(batch) >= 8

====
